---- MODULE Spec2Model ----
(***************************************************************************)
(* The quiz session controller of CodeMaster Quiz (the App component, its  *)
(* TopicSelector / QuizArea / ScoreDisplay children and the question       *)
(* source generateQuizQuestions), as a state machine.                      *)
(*                                                                         *)
(* One action per user gesture, timer callback or promise resolution.  A   *)
(* gesture on a control that is not rendered, or that is rendered with     *)
(* disabled=true, dispatches no handler: the action then records the       *)
(* attempt in lastOp and changes nothing else.  A click is a discrete      *)
(* event: React commits the update and runs the effect of the commit       *)
(* before the next event is handled, so every action contains the render   *)
(* and the timer effect that follow its handler.                           *)
(***************************************************************************)
EXTENDS Integers, Sequences, FiniteSets, TLC

VARIABLES
  quizStatus,            \* useState<QuizStatus>
  topic,                 \* useState<string>, a sequence of characters
  questions,             \* useState<QuizQuestion[]>
  currentQuestionIndex,  \* useState<number>, 0-based as in the source
  score,                 \* useState<number>
  userAnswers,           \* useState<(string | null)[]>
  time,                  \* useState<number>, elapsed seconds
  error,                 \* useState<string | null>
  timerId,               \* TRUE while the interval of the timer effect is set
  pending,               \* generateQuizQuestions calls awaiting their result
  apiKey,                \* process.env.API_KEY is set
  sessionTopic,          \* history: the topic the loaded questions were asked for
  lastOp                 \* history: the last gesture / callback and its input

vars == <<quizStatus, topic, questions, currentQuestionIndex, score,
          userAnswers, time, error, timerId, pending, apiKey, sessionTopic,
          lastOp>>

\* The session part of the state, and the whole state of App
session == <<questions, currentQuestionIndex, score, userAnswers, time>>
state == <<quizStatus, topic, questions, currentQuestionIndex, score,
           userAnswers, time, error>>

----------------------------------------------------------------------------
(* Bounds of the model *)

MaxQuestions == 10   \* longest array a response carries
MaxTime == 2         \* ticks are cut off at this many seconds
MaxInFlight == 2     \* cap on outstanding generation requests

(* Program constants *)

MinQuestions == 10

NOT_STARTED == "NOT_STARTED"
LOADING == "LOADING"
IN_PROGRESS == "IN_PROGRESS"
FINISHED == "FINISHED"
QuizStatus == {NOT_STARTED, LOADING, IN_PROGRESS, FINISHED}

null == "<null>"

MSG_API_KEY == "API_KEY environment variable not set"
MSG_FORMAT == "There was an issue with the AI's response format. Please try again."
MSG_GENERIC == "Could not generate the quiz. Please check the topic or try again later."
MSG_INSUFFICIENT == "The AI generated fewer than 10 questions. Please try again with a clearer topic."
MSG_INVALID == <<"Failed", "to", "generate", "valid", "quiz", "questions.",
                 "The", "received", "format", "is", "incorrect.">>

----------------------------------------------------------------------------
(* Topics: strings as sequences of characters *)

InitialTopic == <<"C", "+", "+">>
TypedTopics == {<<>>, <<" ">>, <<" ", "c", " ">>}
Whitespace == {" "}

RECURSIVE TrimStart(_)
TrimStart(s) ==
  IF s # <<>> /\ Head(s) \in Whitespace THEN TrimStart(Tail(s)) ELSE s

RECURSIVE TrimEnd(_)
TrimEnd(s) ==
  IF s # <<>> /\ s[Len(s)] \in Whitespace
  THEN TrimEnd(SubSeq(s, 1, Len(s) - 1)) ELSE s

\* A test of the topic as typed, without trim()
trimNothing(s) == s

trim(s) == TrimEnd(TrimStart(s))

----------------------------------------------------------------------------
(* Questions and the responses of the generation service.  questionText   *)
(* and explanationText are display-only and left out of QuizQuestion.     *)

Question(options, correct) ==
  [answerOptions |-> options, correctAnswer |-> correct]

\* Sample quizzes of n questions.  Variant 1 has two-option questions at its
\* start and its end (the correct option alternates), variant 2 a question
\* whose correctAnswer is none of its options.
SampleQuiz(n, v) ==
  [i \in 1..n |->
     IF v = 1
     THEN IF i <= 3 \/ i = n
          THEN Question(<<"A", "B">>, IF i % 2 = 1 THEN "A" ELSE "B")
          ELSE Question(<<"A">>, "A")
     ELSE IF i = 2 THEN Question(<<"A", "B">>, "C")
          ELSE Question(<<"A">>, "A")]

ArrayLengths == {1, MinQuestions - 1} \cup (MinQuestions..MaxQuestions)

ApiErrorMessages == {<<"fetch", "failed">>, <<"invalid", "json", "payload">>}

\* What a call of the service comes back with, once the API key is there
Responses ==
       [kind : {"rejected"}, message : ApiErrorMessages]
  \cup {[kind |-> "noText"], [kind |-> "badJson"], [kind |-> "fencedJson"],
        [kind |-> "nullData"], [kind |-> "noQuestions"],
        [kind |-> "notArray"]}
  \cup {[kind |-> "array", items |-> <<>>]}
  \cup {[kind |-> "array", items |-> SampleQuiz(n, v)] :
          n \in ArrayLengths, v \in {1, 2}}

Ok(value) == [ok |-> TRUE, value |-> value]
Throw(message) == [ok |-> FALSE, message |-> message]

\* String.prototype.includes on a message: case-sensitive.  A message is a
\* sequence of pieces, cut so that a piece is the word looked for or has no
\* part in an occurrence of it.
includes(message, word) == \E i \in 1..Len(message) : message[i] = word

\* The body of the try block: the call, response.text.trim(), JSON.parse and
\* the shape test.
generateContent(resp) ==
  CASE resp.kind = "rejected" -> Throw(resp.message)
    [] resp.kind = "noText" ->
         Throw(<<"Cannot", "read", "properties", "of", "undefined">>)
    [] resp.kind = "badJson" ->
         Throw(<<"Unexpected", "token", "in", "JSON", "at", "position", "0">>)
    [] resp.kind = "fencedJson" ->
         \* the text opens with a markdown fence tagged json, and the
         \* engine quotes the start of the text in its message
         Throw(<<"Unexpected", "token", "json", "is", "not", "valid",
                 "JSON">>)
    [] resp.kind = "nullData" ->
         Throw(<<"Cannot", "read", "properties", "of", "null">>)
    [] resp.kind \in {"noQuestions", "notArray"} -> Throw(MSG_INVALID)
    [] resp.kind = "array" ->
         IF Len(resp.items) > 0 THEN Ok(resp.items) ELSE Throw(MSG_INVALID)

\* Without the API key the service is never called
NoApiKey == [kind |-> "noApiKey"]

generateQuizQuestions(resp) ==
  IF resp = NoApiKey THEN Throw(MSG_API_KEY)
  ELSE LET r == generateContent(resp) IN
       IF r.ok THEN r
       ELSE IF includes(r.message, "json") THEN Throw(MSG_FORMAT)
            ELSE Throw(MSG_GENERIC)

----------------------------------------------------------------------------
(* What is rendered *)

isLoading == quizStatus = LOADING

questionNumber == currentQuestionIndex + 1
totalQuestions == Len(questions)
question == questions[currentQuestionIndex + 1]
userAnswer == userAnswers[currentQuestionIndex + 1]
\* A question that counts as answered whatever its slot holds
isAnsweredAlways == TRUE
isAnswered == userAnswer # null

TopicSelectorRendered == quizStatus = NOT_STARTED
QuizAreaRendered == quizStatus = IN_PROGRESS
ScoreDisplayRendered == quizStatus = FINISHED

\* A topic input that is there and editable in every status
TopicInputEnabledAlways == TRUE
TopicInputEnabled == TopicSelectorRendered /\ ~isLoading
StartButtonEnabled ==
  TopicSelectorRendered /\ ~(trim(topic) = <<>> \/ isLoading)
\* A Restart button that is also there during the quiz
RestartButtonEnabledInQuiz ==
  (ScoreDisplayRendered \/ QuizAreaRendered) /\ ~isLoading
RestartButtonEnabled == ScoreDisplayRendered /\ ~isLoading

AnswerButtonEnabled(option) ==
  /\ QuizAreaRendered
  /\ \E i \in 1..Len(question.answerOptions) : question.answerOptions[i] = option
  /\ ~isAnswered
BackButtonEnabled == QuizAreaRendered /\ questionNumber # 1
\* A Next button without disabled={!isAnswered}
NextButtonEnabledUnanswered ==
  QuizAreaRendered /\ questionNumber < totalQuestions
NextButtonEnabled ==
  QuizAreaRendered /\ questionNumber < totalQuestions /\ isAnswered
\* A Finish button without disabled={!isAnswered}
FinishButtonEnabledUnanswered ==
  QuizAreaRendered /\ ~(questionNumber < totalQuestions)
FinishButtonEnabled ==
  QuizAreaRendered /\ ~(questionNumber < totalQuestions) /\ isAnswered

\* A timer effect that sets the interval whatever the status
TimerEffectAlways(status) == TRUE

\* The timer effect of a commit with the given status: the interval is set
\* exactly when the status is IN_PROGRESS (cleanup clears the previous one).
TimerEffect(status) == status = IN_PROGRESS

\* History record: the operation, its input (the option clicked, the kind of
\* the response and the length of its array) and the index it was made at
Op(op, arg, n) ==
  [op |-> op, arg |-> arg, n |-> n, from |-> currentQuestionIndex]

----------------------------------------------------------------------------
Init ==
  /\ quizStatus = NOT_STARTED
  /\ topic = InitialTopic
  /\ questions = <<>>
  /\ currentQuestionIndex = 0
  /\ score = 0
  /\ userAnswers = <<>>
  /\ time = 0
  /\ error = null
  /\ timerId = TimerEffect(NOT_STARTED)
  /\ pending = <<>>
  /\ apiKey \in BOOLEAN
  /\ sessionTopic = <<>>
  /\ lastOp = [op |-> "init", arg |-> "", n |-> 0, from |-> 0]

----------------------------------------------------------------------------
(* Handlers of App.  Each one states the whole next state of App.          *)

\* fetchQuestions that leaves the status as it is
fetchQuestionsNoLoading ==
  IF trim(topic) = <<>>
  THEN UNCHANGED <<state, pending>>
  ELSE /\ error' = null
       /\ pending' = Append(pending, [topic |-> topic])
       /\ UNCHANGED <<quizStatus, topic, session>>

\* fetchQuestions without setError(null)
fetchQuestionsKeepError ==
  IF trim(topic) = <<>>
  THEN UNCHANGED <<state, pending>>
  ELSE /\ quizStatus' = LOADING
       /\ pending' = Append(pending, [topic |-> topic])
       /\ UNCHANGED <<error, topic, session>>

\* fetchQuestions up to the await
fetchQuestions ==
  IF trim(topic) = <<>>
  THEN UNCHANGED <<state, pending>>
  ELSE /\ quizStatus' = LOADING
       /\ error' = null
       /\ pending' = Append(pending, [topic |-> topic])
       /\ UNCHANGED <<topic, session>>

\* Seeding without setScore(0)
SeedSessionKeepScore(newQuestions) ==
  /\ questions' = newQuestions
  /\ userAnswers' = [i \in 1..Len(newQuestions) |-> null]
  /\ currentQuestionIndex' = 0
  /\ time' = 0
  /\ quizStatus' = IN_PROGRESS
  /\ UNCHANGED <<score, topic, error>>

\* Seeding without setTime(0)
SeedSessionKeepTime(newQuestions) ==
  /\ questions' = newQuestions
  /\ userAnswers' = [i \in 1..Len(newQuestions) |-> null]
  /\ currentQuestionIndex' = 0
  /\ score' = 0
  /\ quizStatus' = IN_PROGRESS
  /\ UNCHANGED <<time, topic, error>>

\* fetchQuestions after the await, success: the session is seeded
SeedSession(newQuestions) ==
  /\ questions' = newQuestions
  /\ userAnswers' = [i \in 1..Len(newQuestions) |-> null]
  /\ currentQuestionIndex' = 0
  /\ score' = 0
  /\ time' = 0
  /\ quizStatus' = IN_PROGRESS
  /\ UNCHANGED <<topic, error>>

\* A catch block without setQuizStatus(NOT_STARTED)
CatchErrorStaysLoading(message) ==
  /\ error' = message
  /\ UNCHANGED <<quizStatus, topic, session>>

\* fetchQuestions after the await, the catch block
CatchError(message) ==
  /\ error' = message
  /\ quizStatus' = NOT_STARTED
  /\ UNCHANGED <<topic, session>>

fetchQuestionsResume(result) ==
  IF result.ok
  THEN IF Len(result.value) < MinQuestions
       THEN CatchError(MSG_INSUFFICIENT)
       ELSE SeedSession(result.value)
  ELSE CatchError(result.message)

\* handleAnswer that scores every first answer
handleAnswerAlwaysScores(selectedAnswer) ==
  IF userAnswers[currentQuestionIndex + 1] # null
  THEN UNCHANGED state
  ELSE /\ userAnswers' =
            [userAnswers EXCEPT ![currentQuestionIndex + 1] = selectedAnswer]
       /\ score' = score + 1
       /\ UNCHANGED <<quizStatus, topic, questions, currentQuestionIndex,
                      time, error>>

handleAnswer(selectedAnswer) ==
  IF userAnswers[currentQuestionIndex + 1] # null
  THEN UNCHANGED state
  ELSE /\ userAnswers' =
            [userAnswers EXCEPT ![currentQuestionIndex + 1] = selectedAnswer]
       /\ score' = IF questions[currentQuestionIndex + 1].correctAnswer
                        = selectedAnswer
                    THEN score + 1 ELSE score
       /\ UNCHANGED <<quizStatus, topic, questions, currentQuestionIndex,
                      time, error>>

handleAnswerClick(answer) ==
  IF ~isAnswered THEN handleAnswer(answer) ELSE UNCHANGED state

handleNext ==
  /\ IF currentQuestionIndex < Len(questions) - 1
     THEN currentQuestionIndex' = currentQuestionIndex + 1
     ELSE UNCHANGED currentQuestionIndex
  /\ UNCHANGED <<quizStatus, topic, questions, score, userAnswers, time,
                 error>>

\* handleBack that reopens the question it goes back to
handleBackReopens ==
  /\ IF currentQuestionIndex > 0
     THEN /\ currentQuestionIndex' = currentQuestionIndex - 1
          /\ userAnswers' = [userAnswers EXCEPT ![currentQuestionIndex] = null]
     ELSE UNCHANGED <<currentQuestionIndex, userAnswers>>
  /\ UNCHANGED <<quizStatus, topic, questions, score, time, error>>

handleBack ==
  /\ IF currentQuestionIndex > 0
     THEN currentQuestionIndex' = currentQuestionIndex - 1
     ELSE UNCHANGED currentQuestionIndex
  /\ UNCHANGED <<quizStatus, topic, questions, score, userAnswers, time,
                 error>>

handleFinish ==
  /\ quizStatus' = FINISHED
  /\ UNCHANGED <<topic, session, error>>

----------------------------------------------------------------------------
(* Actions *)

\* The topic input: onChange={(e) => setTopic(e.target.value)}
SetTopic(t) ==
  /\ lastOp' = Op("setTopic", "", 0)
  /\ IF TopicInputEnabled
     THEN topic' = t /\ UNCHANGED <<quizStatus, session, error>>
     ELSE UNCHANGED state
  /\ UNCHANGED <<timerId, pending, apiKey, sessionTopic>>

\* The Start Quiz button: handleStartQuiz
Start ==
  /\ lastOp' = Op("start", "", 0)
  /\ Len(pending) < MaxInFlight
  /\ IF StartButtonEnabled THEN fetchQuestions
     ELSE UNCHANGED <<state, pending>>
  /\ timerId' = TimerEffect(quizStatus')
  /\ UNCHANGED <<apiKey, sessionTopic>>

\* The Restart button: handleRestartQuiz
Restart ==
  /\ lastOp' = Op("restart", "", 0)
  /\ Len(pending) < MaxInFlight
  /\ IF RestartButtonEnabled THEN fetchQuestions
     ELSE UNCHANGED <<state, pending>>
  /\ timerId' = TimerEffect(quizStatus')
  /\ UNCHANGED <<apiKey, sessionTopic>>

\* The i-th outstanding call of generateQuizQuestions settles and
\* fetchQuestions resumes after its await
Resolve(i, resp) ==
  /\ i \in 1..Len(pending)
  /\ resp = NoApiKey <=> ~apiKey
  /\ lastOp' = Op("resolve", resp.kind,
                  IF resp.kind = "array" THEN Len(resp.items) ELSE 0)
  /\ fetchQuestionsResume(generateQuizQuestions(resp))
  /\ pending' = [j \in 1..(Len(pending) - 1) |->
                   IF j < i THEN pending[j] ELSE pending[j + 1]]
  /\ timerId' = TimerEffect(quizStatus')
  /\ sessionTopic' = IF quizStatus' = IN_PROGRESS THEN pending[i].topic
                      ELSE sessionTopic
  /\ UNCHANGED apiKey

\* An answer button that stores every click
AnswerOverwrite(option) ==
  /\ lastOp' = Op("answer", option, 0)
  /\ IF /\ QuizAreaRendered
        /\ \E i \in 1..Len(question.answerOptions) :
              question.answerOptions[i] = option
     THEN /\ userAnswers' =
               [userAnswers EXCEPT ![currentQuestionIndex + 1] = option]
          /\ score' = IF question.correctAnswer = option
                       THEN score + 1 ELSE score
          /\ UNCHANGED <<quizStatus, topic, questions, currentQuestionIndex,
                         time, error>>
     ELSE UNCHANGED state
  /\ UNCHANGED <<timerId, pending, apiKey, sessionTopic>>

\* An answer button of QuizArea
Answer(option) ==
  /\ lastOp' = Op("answer", option, 0)
  /\ IF AnswerButtonEnabled(option) THEN handleAnswerClick(option)
     ELSE UNCHANGED state
  /\ UNCHANGED <<timerId, pending, apiKey, sessionTopic>>

\* A Next control that is there on every question and advances unchecked
GoNextUnchecked ==
  /\ lastOp' = Op("next", "", 0)
  /\ IF QuizAreaRendered /\ isAnswered
     THEN /\ currentQuestionIndex' = currentQuestionIndex + 1
          /\ UNCHANGED <<quizStatus, topic, questions, score, userAnswers,
                         time, error>>
     ELSE UNCHANGED state
  /\ UNCHANGED <<timerId, pending, apiKey, sessionTopic>>

\* The Next button
GoNext ==
  /\ lastOp' = Op("next", "", 0)
  /\ IF NextButtonEnabled THEN handleNext ELSE UNCHANGED state
  /\ UNCHANGED <<timerId, pending, apiKey, sessionTopic>>

\* The Back button
GoBack ==
  /\ lastOp' = Op("back", "", 0)
  /\ IF BackButtonEnabled THEN handleBack ELSE UNCHANGED state
  /\ UNCHANGED <<timerId, pending, apiKey, sessionTopic>>

\* The Finish Quiz button
Finish ==
  /\ lastOp' = Op("finish", "", 0)
  /\ IF FinishButtonEnabled THEN handleFinish ELSE UNCHANGED state
  /\ timerId' = TimerEffect(quizStatus')
  /\ UNCHANGED <<pending, apiKey, sessionTopic>>

\* The interval callback: setTime(prevTime => prevTime + 1)
Tick ==
  /\ timerId
  /\ time < MaxTime
  /\ lastOp' = Op("tick", "", 0)
  /\ time' = time + 1
  /\ UNCHANGED <<quizStatus, topic, questions, currentQuestionIndex, score,
                 userAnswers, error, timerId, pending, apiKey, sessionTopic>>

Options == {"A", "B"}

Next ==
  \/ \E t \in TypedTopics \cup {InitialTopic} : SetTopic(t)
  \/ Start
  \/ Restart
  \/ \E i \in 1..MaxInFlight, resp \in Responses \cup {NoApiKey} :
        Resolve(i, resp)
  \/ \E option \in Options : Answer(option)
  \/ GoNext
  \/ GoBack
  \/ Finish
  \/ Tick

Spec == Init /\ [][Next]_vars

\* The service answers every call in the end (or the call fails): an
\* outstanding call of generateQuizQuestions eventually settles
Settle ==
  \E i \in 1..MaxInFlight, resp \in Responses \cup {NoApiKey} :
     Resolve(i, resp)

FairSpec == Spec /\ WF_vars(Settle)

----------------------------------------------------------------------------
(* Properties *)

\* Number of questions answered with their correctAnswer
Correct ==
  Cardinality({i \in 1..Len(questions) :
                 i <= Len(userAnswers)
                 /\ userAnswers[i] = questions[i].correctAnswer})

\* C1: in every reachable state the score is at most the number of loaded
\* questions.
ScoreAtMostQuestions == score <= Len(questions)

\* A session finished with every question answered correctly
FullMarks ==
  quizStatus = FINISHED /\ score = Len(questions) /\ lastOp.op = "finish"

\* C2: an answer given while the status is IN_PROGRESS and the slot of the
\* current question is already set leaves userAnswers and score unchanged; no
\* answer changes a slot that is set.
AnswerWriteOnce ==
  [][lastOp'.op = "answer" =>
       /\ Len(userAnswers') = Len(userAnswers)
       /\ \A i \in 1..Len(userAnswers) :
            userAnswers[i] # null => userAnswers'[i] = userAnswers[i]
       /\ (quizStatus = IN_PROGRESS /\ userAnswer # null) =>
            UNCHANGED <<userAnswers, score>>]_vars

\* The other option was clicked on a question that has its answer
SecondAnswerIgnored ==
  /\ quizStatus = IN_PROGRESS
  /\ lastOp.op = "answer"
  /\ userAnswer # null
  /\ userAnswer # lastOp.arg

\* C3: next changes nothing when the slot of the current question is unset;
\* when the slot is set and the index is below the last index it adds exactly
\* 1 to currentQuestionIndex and changes nothing else; on the last question
\* it does not change the index.
NextAdvancesOnlyWhenAnswered ==
  [][lastOp'.op = "next" =>
       IF /\ quizStatus = IN_PROGRESS
          /\ userAnswer # null
          /\ currentQuestionIndex < Len(questions) - 1
       THEN /\ currentQuestionIndex' = currentQuestionIndex + 1
            /\ UNCHANGED <<quizStatus, topic, questions, score, userAnswers,
                           time, error, timerId, pending>>
       ELSE UNCHANGED <<state, timerId, pending>>]_vars

\* next has moved from an answered question to the one after it
NextAdvanced ==
  /\ quizStatus = IN_PROGRESS
  /\ lastOp.op = "next"
  /\ currentQuestionIndex = lastOp.from + 1
  /\ userAnswers[lastOp.from + 1] # null

\* C4: finish changes nothing unless the status is IN_PROGRESS, the current
\* question is the last one and its slot is set; then the status becomes
\* FINISHED (and the session is left as it was).
FinishOnlyOnAnsweredLast ==
  [][lastOp'.op = "finish" =>
       IF /\ quizStatus = IN_PROGRESS
          /\ currentQuestionIndex = Len(questions) - 1
          /\ userAnswer # null
       THEN quizStatus' = FINISHED /\ UNCHANGED <<topic, session, error, pending>>
       ELSE UNCHANGED <<state, timerId, pending>>]_vars

\* finish has ended a session on its last question
FinishAccepted ==
  /\ quizStatus = FINISHED
  /\ lastOp.op = "finish"
  /\ currentQuestionIndex = Len(questions) - 1
  /\ userAnswer # null

\* C5: during a session back changes nothing at index 0; at an index above 0
\* it subtracts exactly 1 from currentQuestionIndex, leaves userAnswers and
\* score unchanged, and the question gone back to has its answer.
BackKeepsAnswers ==
  [][lastOp'.op = "back" =>
       IF quizStatus = IN_PROGRESS /\ currentQuestionIndex > 0
       THEN /\ currentQuestionIndex' = currentQuestionIndex - 1
            /\ UNCHANGED <<quizStatus, topic, questions, score, userAnswers,
                           time, error, timerId, pending>>
            /\ userAnswers'[currentQuestionIndex' + 1] # null
       ELSE UNCHANGED <<state, timerId, pending>>]_vars

\* back has returned to an answered question
WentBack ==
  /\ quizStatus = IN_PROGRESS
  /\ lastOp.op = "back"
  /\ currentQuestionIndex = lastOp.from - 1
  /\ userAnswer # null

\* C6: after a failed generation attempt (the source fails or returns fewer
\* than MinQuestions questions) the status is NOT_STARTED, error is set, and
\* no questions, answers, score or elapsed time remain.
FailureRetainsNoSession ==
  (lastOp.op = "resolve"
     /\ ~(lastOp.arg = "array" /\ lastOp.n >= MinQuestions)) =>
    /\ quizStatus = NOT_STARTED
    /\ error # null
    /\ questions = <<>>
    /\ userAnswers = <<>>
    /\ score = 0
    /\ time = 0

\* C7: a generation request that succeeds with at least MinQuestions
\* questions leaves the status IN_PROGRESS with currentQuestionIndex 0,
\* score 0, time 0, the questions of the response, and one unset slot of
\* userAnswers per question.
SuccessSeedsFreshSession ==
  (lastOp.op = "resolve" /\ lastOp.arg = "array" /\ lastOp.n >= MinQuestions) =>
    /\ quizStatus = IN_PROGRESS
    /\ currentQuestionIndex = 0
    /\ score = 0
    /\ time = 0
    /\ Len(questions) = lastOp.n
    /\ Len(userAnswers) = Len(questions)
    /\ \A i \in 1..Len(userAnswers) : userAnswers[i] = null

\* A restart was seeded: the request resolved while the last question of the
\* earlier session was still the current one
RestartSeeded ==
  /\ lastOp.op = "resolve"
  /\ quizStatus = IN_PROGRESS
  /\ lastOp.from > 0
  /\ topic # InitialTopic

\* C8: time changes only by a tick that adds exactly 1 while the status is
\* IN_PROGRESS, or by the seeding of a new session, which sets it to 0; ticks
\* happen in no other status.
TimeTicksOnlyInProgress ==
  [][/\ lastOp'.op = "tick" =>
          (quizStatus = IN_PROGRESS /\ quizStatus' = IN_PROGRESS)
     /\ time' # time =>
          \/ lastOp'.op = "tick" /\ time' = time + 1
          \/ lastOp'.op = "resolve" /\ quizStatus' = IN_PROGRESS /\ time' = 0
    ]_vars

\* The elapsed time of a finished session, kept while the next one loads
TimeFrozen == quizStatus = LOADING /\ time > 0 /\ lastOp.op = "restart"

\* C9: at most one generation request is in flight, and one is in flight
\* exactly while the status is LOADING.
OneRequestInFlight ==
  /\ Len(pending) <= 1
  /\ Len(pending) = 1 <=> quizStatus = LOADING

\* Restart was clicked while the first request was outstanding
RestartWhileLoading ==
  /\ quizStatus = LOADING
  /\ lastOp.op = "restart"
  /\ questions = <<>>
  /\ Len(pending) = 1

\* C10: in every IN_PROGRESS or FINISHED state the score is the number of
\* indices i with userAnswers[i] equal to questions[i].correctAnswer.
ScoreCountsCorrect ==
  quizStatus \in {IN_PROGRESS, FINISHED} => score = Correct

\* A finished session with right and wrong answers
MixedResult ==
  /\ quizStatus = FINISHED
  /\ 0 < score
  /\ score < Len(questions)
  /\ \A i \in 1..Len(questions) :
       userAnswers[i] = questions[i].correctAnswer \/ userAnswers[i] = "A"

\* C11: every question of a session in IN_PROGRESS or FINISHED has its
\* correctAnswer among its answerOptions (the source hands over only
\* well-formed questions).
CorrectAnswerAmongOptions ==
  quizStatus \in {IN_PROGRESS, FINISHED} =>
    \A i \in 1..Len(questions) :
      \E j \in 1..Len(questions[i].answerOptions) :
        questions[i].answerOptions[j] = questions[i].correctAnswer

\* C12: a start or restart with a topic that is empty or all whitespace
\* changes nothing: the status and error stay as they were and no generation
\* request is issued.
BlankTopicStartsNothing ==
  [][(/\ lastOp'.op \in {"start", "restart"}
      /\ \A i \in 1..Len(topic) : topic[i] \in Whitespace) =>
       UNCHANGED <<state, timerId, pending>>]_vars

\* Start was clicked with an all-whitespace topic after a failed attempt
BlankStartIgnored ==
  /\ lastOp.op = "start"
  /\ topic = <<" ">>
  /\ quizStatus = NOT_STARTED
  /\ error # null
  /\ pending = <<>>

\* C13: the topic changes only while the status is NOT_STARTED, and a restart
\* from FINISHED issues its generation request with the topic the finished
\* session was generated from.
TopicFixedOutsideNotStarted ==
  [][/\ topic' # topic => quizStatus = NOT_STARTED
     /\ (lastOp'.op = "restart" /\ quizStatus = FINISHED) =>
          /\ quizStatus' = LOADING
          /\ pending' = <<[topic |-> sessionTopic]>>]_vars

\* A session on a typed topic was finished and restarted
RestartSameTopic ==
  /\ quizStatus = LOADING
  /\ lastOp.op = "restart"
  /\ sessionTopic = <<" ", "c", " ">>
  /\ pending = <<[topic |-> sessionTopic]>>

\* C14: every generation request that resolves, with success or with a
\* failure of any kind, takes the status from LOADING to IN_PROGRESS or to
\* NOT_STARTED, a failure with error set; and as the source responds in the
\* end, the status never stays LOADING forever.
EveryResolutionLeavesLoading ==
  /\ [][lastOp'.op = "resolve" =>
          /\ quizStatus = LOADING
          /\ quizStatus' \in {IN_PROGRESS, NOT_STARTED}
          /\ quizStatus' = NOT_STARTED => error' # null]_vars
  /\ (quizStatus = LOADING) ~> (quizStatus # LOADING)

\* A TypeError thrown on a null document was caught and reported
TypeErrorHandled ==
  /\ lastOp.op = "resolve"
  /\ lastOp.arg = "nullData"
  /\ quizStatus = NOT_STARTED
  /\ error = MSG_GENERIC

\* C15: while the status is IN_PROGRESS, currentQuestionIndex is within
\* 0 .. Len(questions) - 1, whatever next and back did before.
IndexInBounds ==
  quizStatus = IN_PROGRESS =>
    /\ 0 <= currentQuestionIndex
    /\ currentQuestionIndex <= Len(questions) - 1

\* next was tried on the last question and left the index where it was
NextOnLastQuestion ==
  /\ quizStatus = IN_PROGRESS
  /\ lastOp.op = "next"
  /\ lastOp.from = Len(questions) - 1
  /\ currentQuestionIndex = Len(questions) - 1

\* C16: error is unset in every LOADING, IN_PROGRESS and FINISHED state;
\* every start or restart that issues a request clears it, a failed
\* generation attempt sets it, a successful one leaves it unset, and nothing
\* else changes it.
ErrorOnlyAfterFailure ==
  /\ [](quizStatus # NOT_STARTED => error = null)
  /\ [][/\ (lastOp'.op \in {"start", "restart"} /\ pending' # pending) =>
             (quizStatus' = LOADING /\ error' = null)
        /\ lastOp'.op = "resolve" =>
             (error' # null <=>
                ~(lastOp'.arg = "array" /\ lastOp'.n >= MinQuestions))
        /\ error' # error =>
             \/ lastOp'.op = "resolve"
             \/ lastOp'.op \in {"start", "restart"} /\ pending' # pending
       ]_vars

\* A restart failed for want of questions: error is set again, after a
\* whole session in which it was unset
ErrorAfterFailedRestart ==
  /\ quizStatus = NOT_STARTED
  /\ lastOp.op = "resolve"
  /\ error = MSG_INSUFFICIENT
  /\ questions # <<>>

\* C17: when the response is unparsable JSON or fails the shape test (no
\* questions field, questions not an array, an empty array), error is the
\* formatting-issue message.
MalformedGivesFormatMessage ==
  (/\ lastOp.op = "resolve"
   /\ \/ lastOp.arg \in {"badJson", "fencedJson", "noQuestions", "notArray"}
      \/ lastOp.arg = "array" /\ lastOp.n = 0) =>
    error = MSG_FORMAT

\* C18: the status changes only along NotStarted -> Loading,
\* Loading -> InProgress, Loading -> NotStarted, InProgress -> Finished and
\* Finished -> Loading; every other step leaves the status as it is.
StatusChangesAlongEdges ==
  [][quizStatus' # quizStatus =>
       <<quizStatus, quizStatus'>> \in
         {<<NOT_STARTED, LOADING>>, <<LOADING, IN_PROGRESS>>,
          <<LOADING, NOT_STARTED>>, <<IN_PROGRESS, FINISHED>>,
          <<FINISHED, LOADING>>}]_vars

\* A restart has failed: the status has gone through all five edges
AllEdgesTaken ==
  /\ quizStatus = NOT_STARTED
  /\ lastOp.op = "resolve"
  /\ lastOp.arg = "fencedJson"
  /\ \A i \in 1..Len(userAnswers) : userAnswers[i] # null
  /\ questions # <<>>

\* C19: in progress every slot of userAnswers below currentQuestionIndex is
\* set, and once finished every slot of userAnswers is set.
AnsweredBeforeMovingOn ==
  /\ quizStatus = IN_PROGRESS =>
       \A i \in 1..currentQuestionIndex : userAnswers[i] # null
  /\ quizStatus = FINISHED =>
       \A i \in 1..Len(userAnswers) : userAnswers[i] # null

\* The last question is reached by Next and still open
LastQuestionOpen ==
  /\ quizStatus = IN_PROGRESS
  /\ lastOp.op = "next"
  /\ currentQuestionIndex = Len(questions) - 1
  /\ currentQuestionIndex = lastOp.from + 1
  /\ userAnswer = null

====
